---- MODULE Spec2Model ----
(***************************************************************************)
(* Single-flight coordinator for cache-empty notifications                 *)
(* (CacheEmptyHandler.handle, getOrCreateLock, handleCacheEmpty).          *)
(*                                                                         *)
(* Every element of Calls is one invocation of handle() running in its own *)
(* goroutine.  The channelLock allocated by invocation p in                *)
(* getOrCreateLock (newLock) is identified by p itself, so locks[p] is the *)
(* object &channelLock{done: make(chan struct{})} of invocation p, whether *)
(* or not LoadOrStore stored it.                                           *)
(***************************************************************************)
EXTENDS Integers, Sequences, FiniteSets

\* ---------------------------------------------------------------- bounds
NumCalls == 3
NumChannels == 3
NumProxies == 2

Calls == 1..NumCalls
Channels == 1..NumChannels
ProxyNames == 1..NumProxies
NoLock == 0

\* ---------------------------------------------------------------- values
\* A transport call is identified by <<p, k>>: the k-th ProxyCacheEmpty call
\* made by invocation p.  NoCall marks a value no transport call made.
NoCall == <<0, 0>>

\* A *NotifyCacheEmptyResponse: nil, or an object made by transport call
\* `call` (NoCall: synthesized by handleCacheEmpty itself).
NilResp == [nil |-> TRUE, populated |-> FALSE, call |-> NoCall]
\* &NotifyCacheEmptyResponse{Result: &NotifyCacheEmptyResult{}}
DefaultResponse == [nil |-> FALSE, populated |-> FALSE, call |-> NoCall]
\* An error value: nil, or an error made by transport call `call`
\* (NoCall: a package-level or context error value).
NilErr == [kind |-> "nil", call |-> NoCall]
ErrLockTimeout == [kind |-> "timeout waiting for cache empty lock", call |-> NoCall]
\* ctx.Err() of a cancelled context
CtxErr == [kind |-> "context canceled", call |-> NoCall]

\* A registry entry: a nil interface value, or a transport binding, named
\* by its Protocol().
NilProxy == "nil"
Binding(n) == IF n % 2 = 1 THEN "http" ELSE "grpc"

\* config.Proxies.  Names are arbitrary and Go ranges over a map in an
\* unspecified order, so a registry is determined by how many nil entries
\* and how many bindings it holds: the nil entries get the first names.
Registries ==
  {[n \in 1..k |-> IF n <= j THEN NilProxy ELSE Binding(n)] :
     k \in 0..NumProxies, j \in 0..NumProxies}

\* time.Second.  A time.Duration is counted here in milliseconds, not in
\* nanoseconds: TLC's integers are 32 bits wide.
Second == 1000

\* config.LockTimeout: unset (zero), a tick, the values the tests set
\* (500ms, 10s), the default itself, and a negative duration.
LockTimeouts ==
  {0, 1, Second \div 2, 5 * Second, 10 * Second, 0 - Second}

\* The configurations NewCacheEmptyHandler is given.
Configs ==
  {[Proxies |-> reg, LockTimeout |-> t] : reg \in Registries, t \in LockTimeouts}

\* Variant: the constructor without the default.
NewCacheEmptyHandler_NoDefault(cfg) ==
  [proxies |-> cfg.Proxies, lockTimeout |-> cfg.LockTimeout]

\* NewCacheEmptyHandler: the fields of the handler it builds.
NewCacheEmptyHandler(cfg) ==
  [proxies |-> cfg.Proxies,
   lockTimeout |-> IF cfg.LockTimeout = 0 THEN 5 * Second ELSE cfg.LockTimeout]

VARIABLES
  config,        \* the CacheEmptyHandlerConfig the handler was built from
  lockTimeout,   \* h.lockTimeout
  proxies,       \* h.proxies
  channelLocks,  \* h.channelLocks: channel -> lock id, NoLock = no entry
  locks,         \* the channelLock objects: result, err, done (closed?)
  pc,            \* position of each invocation of handle()
  channel,       \* argument `channel` of each invocation
  ctxDone,       \* ctx.Done() of each invocation's context is closed
  lock,          \* local `lock` (the lock LoadOrStore returned)
  isFirstCall,   \* local `isFirstCall`
  timerFired,    \* a value is ready on timer.C
  ret,           \* the (response, error) pair the invocation returns
  transport,     \* the ProxyCacheEmpty calls each invocation made, in order
  first,         \* history: which select event came first, while p waits
  afterDone      \* history: when p was issued, a call for its channel had
                 \* returned a Dispatch outcome

vars == <<config, lockTimeout, proxies, channelLocks, locks, pc, channel, ctxDone, lock,
          isFirstCall, timerFired, ret, transport, first, afterDone>>

NoRet == [resp |-> NilResp, err |-> NilErr]

Returned(p) == pc[p] \in {"retLeader", "retDone", "retTimeout", "retCtx"}

\* handle() returned a Dispatch outcome: the leader's or a fallback's.
Completed(p) == pc[p] \in {"retLeader", "retDone", "retTimeout"}
CompletedFor(c) == {q \in Calls : Completed(q) /\ channel[q] = c}

\* The state NewCacheEmptyHandler(cfg) returns the handler in: no call yet.
InitFrom(cfg) ==
  /\ config = cfg
  /\ proxies = NewCacheEmptyHandler(cfg).proxies
  /\ lockTimeout = NewCacheEmptyHandler(cfg).lockTimeout
  /\ channelLocks = [c \in Channels |-> NoLock]
  /\ locks = [l \in Calls |-> [result |-> NilResp, err |-> NilErr, done |-> FALSE]]
  /\ pc = [p \in Calls |-> "idle"]
  /\ channel = [p \in Calls |-> 1]
  /\ ctxDone = [p \in Calls |-> FALSE]
  /\ lock = [p \in Calls |-> NoLock]
  /\ isFirstCall = [p \in Calls |-> FALSE]
  /\ timerFired = [p \in Calls |-> FALSE]
  /\ ret = [p \in Calls |-> NoRet]
  /\ transport = [p \in Calls |-> <<>>]
  /\ first = [p \in Calls |-> "none"]
  /\ afterDone = [p \in Calls |-> FALSE]

\* The handler is built with LockTimeout left unset.  The wait is modelled
\* without a clock (the timer may fire at any moment), so the length of the
\* timeout plays no part in what handle() can do.
Init == \E cfg \in Configs : cfg.LockTimeout = 0 /\ InitFrom(cfg)

\* ------------------------------------------------------------- dispatch
\* Variant: the range loop without the nil check.
UsableProxies_All(reg) == DOMAIN reg

\* Variant: a nil entry ends the range loop.
UsableProxies_StopAtNil(reg) ==
  IF \E n \in DOMAIN reg : reg[n] = NilProxy
    THEN {} ELSE {n \in DOMAIN reg : reg[n] # NilProxy}

\* handleCacheEmpty: the entries the range loop does not skip.
UsableProxies(reg) == {n \in DOMAIN reg : reg[n] # NilProxy}

\* What a binding's ProxyCacheEmpty can return for transport call i made
\* under a context whose cancellation state is `cancelled`.
ProxyOutcomes(i, cancelled) ==
  {[resp |-> [nil |-> FALSE, populated |-> TRUE, call |-> i], err |-> NilErr]}
  \cup {[resp |-> NilResp, err |-> [kind |-> "transport", call |-> i]]}
  \cup (IF cancelled
          THEN {[resp |-> NilResp, err |-> [kind |-> "context canceled", call |-> i]]}
          ELSE {})

\* Variant: a cancellation error of the transport call is replaced by the
\* context's own error value.
HandleCacheEmptyResult_MaskCancel(out) ==
  IF out.err # NilErr
    THEN [resp |-> NilResp,
          err |-> IF out.err.kind = "context canceled" THEN CtxErr ELSE out.err]
    ELSE [resp |-> out.resp, err |-> NilErr]

\* handleCacheEmpty, after ProxyCacheEmpty returned `out`.
HandleCacheEmptyResult(out) ==
  IF out.err # NilErr
    THEN [resp |-> NilResp, err |-> out.err]
    ELSE [resp |-> out.resp, err |-> NilErr]

\* handleCacheEmpty when the loop ends without a usable entry.
HandleCacheEmptyDefault == [resp |-> DefaultResponse, err |-> NilErr]

\* req := &proxyproto.NotifyCacheEmptyRequest{Channel: channel}
NewRequest(ch) == [Channel |-> ch]

\* The record of a ProxyCacheEmpty call in flight.
NewTransportCall(p, name, req) ==
  [by |-> p, proxy |-> name, protocol |-> proxies[name], req |-> req,
   returned |-> FALSE, out |-> NoRet]

\* The transport call invocation p is blocked in: its latest one.
CallOf(p) == <<p, Len(transport[p])>>

\* Every transport call made so far.
TransportCalls == UNION {{<<p, k>> : k \in 1..Len(transport[p])} : p \in Calls}

\* The record of transport call i.
TransportCall(i) == transport[i[1]][i[2]]

\* ------------------------------------------------------------- handle()
\* Variant: one key for every channel.
LockKey_Global(ch) == 1

\* sync.Map key used for the channel.
LockKey(ch) == ch

\* Variant: a plain Store, which replaces the entry that is present.
LoadOrStore_Store(m, key, new) == <<new, FALSE>>

\* Variant: a Load followed by a Store, both finding the key absent.
LoadOrStore_NotLoaded(m, key, new) ==
  IF m[key] = NoLock THEN <<new, FALSE>> ELSE <<m[key], FALSE>>

\* h.channelLocks.LoadOrStore(channel, newLock): <<actual, loaded>>.
LoadOrStore(m, key, new) ==
  IF m[key] = NoLock THEN <<new, FALSE>> ELSE <<m[key], TRUE>>

\* A goroutine invokes handler(ctx, c) and runs
\*   lock, isFirstCall := h.getOrCreateLock(channel)
\* The install step is the first thing handle() does that another goroutine
\* can observe, so a call counts as issued at its install step.
\* Invocations are interchangeable and so are channel names: invocations
\* are issued in the order of their numbers, and a channel is used only
\* once the channels before it are.
GetOrCreateLock(p, c) ==
  /\ pc[p] = "idle"
  /\ \A q \in Calls : q < p => pc[q] # "idle"
  /\ \A d \in Channels : d < c => \E q \in Calls : pc[q] # "idle" /\ channel[q] = d
  /\ channel' = [channel EXCEPT ![p] = c]
  /\ afterDone' = [afterDone EXCEPT ![p] = CompletedFor(c) # {}]
  /\ LET key == LockKey(c)
         r == LoadOrStore(channelLocks, key, p)
     IN /\ channelLocks' = [channelLocks EXCEPT ![key] = r[1]]
        /\ lock' = [lock EXCEPT ![p] = r[1]]
        /\ isFirstCall' = [isFirstCall EXCEPT ![p] = ~r[2]]

\* The caller's context is cancelled (or its deadline passes).  handle()
\* observes the context at the select and inside ProxyCacheEmpty only, so a
\* cancellation before one of these points acts as one at that point.
CtxCancel(p) ==
  /\ pc[p] \in {"leaderCall", "select", "fallbackCall"}
  /\ ~ctxDone[p]
  /\ ctxDone' = [ctxDone EXCEPT ![p] = TRUE]
  /\ first' = [first EXCEPT ![p] =
                 IF pc[p] = "select" /\ first[p] = "none" THEN "ctx" ELSE @]
  /\ UNCHANGED <<config, lockTimeout, proxies, channelLocks, locks, pc, channel, lock, isFirstCall,
                 timerFired, ret, transport, afterDone>>

\* ---- follower path: entry ----
\* The entry was loaded: the follower creates its timer and reaches the
\* select.
HandleFollower(p, c) ==
  /\ GetOrCreateLock(p, c)
  /\ ~isFirstCall'[p]
  /\ pc' = [pc EXCEPT ![p] = "select"]
  /\ UNCHANGED <<config, lockTimeout, proxies, locks, ctxDone, timerFired, ret, transport, first>>

\* ---- leader path (isFirstCall) ----
\* Variant: the leader stores the response but not the error.
StoreResult_DropError(lk, r) == [lk EXCEPT !.result = r.resp]

\* Variant: the leader returns the outcome without storing it on the lock.
StoreResult_Skip(lk, r) == lk

\* lock.result, lock.err = handleCacheEmpty(...)
StoreResult(lk, r) == [lk EXCEPT !.result = r.resp, !.err = r.err]

\* return lock.result, lock.err   (leader; evaluated before the deferred
\* cleanup runs)
LeaderReturn(lk) == [resp |-> lk.result, err |-> lk.err]

\* The entry was stored and handleCacheEmpty finds no usable entry: the
\* leader stores and returns the default response without a transport call.
HandleLeaderDefault(p, c) ==
  /\ GetOrCreateLock(p, c)
  /\ isFirstCall'[p]
  /\ UsableProxies(proxies) = {}
  /\ locks' = [locks EXCEPT ![lock'[p]] = StoreResult(@, HandleCacheEmptyDefault)]
  /\ ret' = [ret EXCEPT ![p] = LeaderReturn(locks'[lock'[p]])]
  /\ pc' = [pc EXCEPT ![p] = "leaderDelete"]
  /\ UNCHANGED <<config, lockTimeout, proxies, ctxDone, timerFired, transport, first>>

\* The entry was stored and handleCacheEmpty calls ProxyCacheEmpty on the
\* first non-nil entry the range loop meets (Go ranges over a map in an
\* unspecified order).
HandleLeaderCall(p, c) ==
  /\ GetOrCreateLock(p, c)
  /\ isFirstCall'[p]
  /\ \E n \in UsableProxies(proxies) :
       transport' = [transport EXCEPT ![p] =
                       Append(@, NewTransportCall(p, n, NewRequest(c)))]
  /\ pc' = [pc EXCEPT ![p] = "leaderCall"]
  /\ UNCHANGED <<config, lockTimeout, proxies, locks, ctxDone, timerFired, ret, first>>

\* Variant: the leader calls ProxyCacheEmpty again after a first error.
LeaderProxyReturn_Retry(p) ==
  /\ pc[p] = "leaderCall"
  /\ LET i == CallOf(p) IN
       \E out \in ProxyOutcomes(i, ctxDone[p]) :
         IF out.err # NilErr /\ Len(transport[p]) = 1
           THEN /\ transport' =
                     [transport EXCEPT
                        ![p] = Append([@ EXCEPT ![i[2]].returned = TRUE,
                                                ![i[2]].out = out],
                                      NewTransportCall(p, @[i[2]].proxy,
                                                       NewRequest(channel[p])))]
                /\ UNCHANGED <<locks, ret, pc>>
           ELSE /\ transport' = [transport EXCEPT ![i[1]][i[2]].returned = TRUE,
                                                 ![i[1]][i[2]].out = out]
                /\ locks' = [locks EXCEPT
                               ![lock[p]] = StoreResult(@, HandleCacheEmptyResult(out))]
                /\ ret' = [ret EXCEPT ![p] = LeaderReturn(locks'[lock[p]])]
                /\ pc' = [pc EXCEPT ![p] = "leaderDelete"]
  /\ UNCHANGED <<config, lockTimeout, proxies, channelLocks, channel, ctxDone,
                 lock, isFirstCall, timerFired, first, afterDone>>

\* The leader's ProxyCacheEmpty returns; the result is stored on the lock
\* and the return values are evaluated.
LeaderProxyReturn(p) ==
  /\ pc[p] = "leaderCall"
  /\ LET i == CallOf(p) IN
       \E out \in ProxyOutcomes(i, ctxDone[p]) :
         /\ transport' = [transport EXCEPT ![i[1]][i[2]].returned = TRUE,
                                          ![i[1]][i[2]].out = out]
         /\ locks' = [locks EXCEPT
                        ![lock[p]] = StoreResult(@, HandleCacheEmptyResult(out))]
  /\ ret' = [ret EXCEPT ![p] = LeaderReturn(locks'[lock[p]])]
  /\ pc' = [pc EXCEPT ![p] = "leaderDelete"]
  /\ UNCHANGED <<config, lockTimeout, proxies, channelLocks, channel, ctxDone, lock, isFirstCall,
                 timerFired, first, afterDone>>

\* Variant: the cleanup leaves the entry in the map.
DeleteLock_Keep(m, key) == m

\* h.channelLocks.Delete(channel)
DeleteLock(m, key) == [m EXCEPT ![key] = NoLock]

\* deferred cleanup, first statement
LeaderDelete(p) ==
  /\ pc[p] = "leaderDelete"
  /\ channelLocks' = DeleteLock(channelLocks, LockKey(channel[p]))
  /\ pc' = [pc EXCEPT ![p] = "leaderClose"]
  /\ UNCHANGED <<config, lockTimeout, proxies, locks, channel, ctxDone, lock, isFirstCall,
                 timerFired, ret, transport, first, afterDone>>

\* Variant: the cleanup does not close the channel.
CloseDone_Skip(lk) == lk

\* close(lock.done)
CloseDone(lk) == [lk EXCEPT !.done = TRUE]

\* deferred cleanup, second statement: close(lock.done); closing a closed
\* channel panics.  handle() then returns to its caller.
LeaderClose(p) ==
  /\ pc[p] = "leaderClose"
  /\ locks' = [locks EXCEPT ![lock[p]] = CloseDone(@)]
  /\ pc' = [pc EXCEPT ![p] = IF locks[lock[p]].done THEN "panic" ELSE "retLeader"]
  /\ first' = [q \in Calls |->
                 IF pc[q] = "select" /\ lock[q] = lock[p] /\ first[q] = "none"
                   THEN "done" ELSE first[q]]
  /\ UNCHANGED <<config, lockTimeout, proxies, channelLocks, channel, ctxDone, lock, isFirstCall,
                 timerFired, ret, transport, afterDone>>

\* ---- follower path: the wait ----
\* The runtime sends on timer.C once h.lockTimeout has elapsed.
TimerFire(p) ==
  /\ pc[p] = "select"
  /\ ~timerFired[p]
  /\ timerFired' = [timerFired EXCEPT ![p] = TRUE]
  /\ first' = [first EXCEPT ![p] = IF @ = "none" THEN "timer" ELSE @]
  /\ UNCHANGED <<config, lockTimeout, proxies, channelLocks, locks, pc, channel, ctxDone, lock,
                 isFirstCall, ret, transport, afterDone>>

\* Variant: the follower forwards the leader's error but not its response.
DoneBranchReturn_DropResult(lk) == [resp |-> NilResp, err |-> lk.err]

\* Variant: the follower forwards the leader's response but not its error.
DoneBranchReturn_DropError(lk) == [resp |-> lk.result, err |-> NilErr]

\* return lock.result, lock.err   (case <-lock.done)
DoneBranchReturn(lk) == [resp |-> lk.result, err |-> lk.err]

\* Variant: the cancellation branch returns no error.
CtxBranchReturn_NoError == [resp |-> NilResp, err |-> NilErr]

\* return nil, ctx.Err()          (case <-ctx.Done())
CtxBranchReturn == [resp |-> NilResp, err |-> CtxErr]

\* Variant: the timer branch surfaces the timeout as ErrLockTimeout.
FallbackReturn_LockTimeout(r) == [resp |-> NilResp, err |-> ErrLockTimeout]

\* return handleCacheEmpty(ctx, req, h.proxies)   (case <-timer.C)
FallbackReturn(r) == r

\* Variant: the follower waits on the lock the map holds for its channel
\* at the time of the select, not on the lock it obtained at the install
\* step.
SelectDone_CurrentEntry(p) ==
  /\ pc[p] = "select"
  /\ channelLocks[LockKey(channel[p])] # NoLock
  /\ locks[channelLocks[LockKey(channel[p])]].done
  /\ ret' = [ret EXCEPT ![p] =
               DoneBranchReturn(locks[channelLocks[LockKey(channel[p])]])]
  /\ pc' = [pc EXCEPT ![p] = "retDone"]
  /\ first' = [first EXCEPT ![p] = "none"]
  /\ UNCHANGED <<config, lockTimeout, proxies, channelLocks, locks, channel,
                 ctxDone, lock, isFirstCall, timerFired, transport, afterDone>>

\* The select statement: a case can be taken when its channel is ready;
\* when several are ready Go picks one of them at random.  The timer case
\* receives the value from timer.C; the other two leave it there.
SelectDone(p) ==
  /\ pc[p] = "select"
  /\ locks[lock[p]].done
  /\ ret' = [ret EXCEPT ![p] = DoneBranchReturn(locks[lock[p]])]
  /\ pc' = [pc EXCEPT ![p] = "retDone"]
  /\ first' = [first EXCEPT ![p] = "none"]
  /\ UNCHANGED <<config, lockTimeout, proxies, channelLocks, locks, channel, ctxDone, lock,
                 isFirstCall, timerFired, transport, afterDone>>

SelectCtx(p) ==
  /\ pc[p] = "select"
  /\ ctxDone[p]
  /\ ret' = [ret EXCEPT ![p] = CtxBranchReturn]
  /\ pc' = [pc EXCEPT ![p] = "retCtx"]
  /\ first' = [first EXCEPT ![p] = "none"]
  /\ UNCHANGED <<config, lockTimeout, proxies, channelLocks, locks, channel, ctxDone, lock,
                 isFirstCall, timerFired, transport, afterDone>>

\* case <-timer.C, up to the fallback's handleCacheEmpty.
SelectTimer(p) ==
  /\ pc[p] = "select"
  /\ timerFired[p]
  /\ timerFired' = [timerFired EXCEPT ![p] = FALSE]
  /\ first' = [first EXCEPT ![p] = "none"]

\* The timer case is taken and handleCacheEmpty finds no usable entry.
SelectTimerDefault(p) ==
  /\ SelectTimer(p)
  /\ UsableProxies(proxies) = {}
  /\ ret' = [ret EXCEPT ![p] = FallbackReturn(HandleCacheEmptyDefault)]
  /\ pc' = [pc EXCEPT ![p] = "retTimeout"]
  /\ UNCHANGED <<config, lockTimeout, proxies, channelLocks, locks, channel, ctxDone, lock,
                 isFirstCall, transport, afterDone>>

\* Variant: the fallback issues its transport call twice.
FallbackCall_Twice(t, p, n) ==
  Append(Append(t, [NewTransportCall(p, n, NewRequest(channel[p]))
                      EXCEPT !.returned = TRUE]),
         NewTransportCall(p, n, NewRequest(channel[p])))

\* req := &proxyproto.NotifyCacheEmptyRequest{Channel: channel} and the
\* ProxyCacheEmpty call handleCacheEmpty makes with it.
FallbackCall(t, p, n) == Append(t, NewTransportCall(p, n, NewRequest(channel[p])))

\* Variant: a select without the timer case.
SelectTimerCall_Never(p) == FALSE /\ UNCHANGED vars

\* The timer case is taken and handleCacheEmpty calls ProxyCacheEmpty with
\* a new request.
SelectTimerCall(p) ==
  /\ SelectTimer(p)
  /\ \E n \in UsableProxies(proxies) :
       transport' = [transport EXCEPT ![p] = FallbackCall(@, p, n)]
  /\ pc' = [pc EXCEPT ![p] = "fallbackCall"]
  /\ UNCHANGED <<config, lockTimeout, proxies, channelLocks, locks, channel, ctxDone, lock,
                 isFirstCall, ret, afterDone>>

\* Variant: the fallback publishes its outcome on the leader's lock.
FallbackProxyReturn_Publish(p) ==
  /\ pc[p] = "fallbackCall"
  /\ LET i == CallOf(p) IN
       \E out \in ProxyOutcomes(i, ctxDone[p]) :
         /\ transport' = [transport EXCEPT ![i[1]][i[2]].returned = TRUE,
                                          ![i[1]][i[2]].out = out]
         /\ ret' = [ret EXCEPT ![p] = FallbackReturn(HandleCacheEmptyResult(out))]
         /\ locks' = [locks EXCEPT
                        ![lock[p]] = StoreResult(@, HandleCacheEmptyResult(out))]
  /\ pc' = [pc EXCEPT ![p] = "retTimeout"]
  /\ UNCHANGED <<config, lockTimeout, proxies, channelLocks, channel, ctxDone,
                 lock, isFirstCall, timerFired, first, afterDone>>

\* The fallback's ProxyCacheEmpty returns and handle() returns its outcome.
FallbackProxyReturn(p) ==
  /\ pc[p] = "fallbackCall"
  /\ LET i == CallOf(p) IN
       \E out \in ProxyOutcomes(i, ctxDone[p]) :
         /\ transport' = [transport EXCEPT ![i[1]][i[2]].returned = TRUE,
                                          ![i[1]][i[2]].out = out]
         /\ ret' = [ret EXCEPT ![p] = FallbackReturn(HandleCacheEmptyResult(out))]
  /\ pc' = [pc EXCEPT ![p] = "retTimeout"]
  /\ UNCHANGED <<config, lockTimeout, proxies, channelLocks, locks, channel, ctxDone, lock,
                 isFirstCall, timerFired, first, afterDone>>

\* ---------------------------------------------------------- specification
Next ==
  \E p \in Calls :
    \/ \E c \in Channels : HandleFollower(p, c)
    \/ \E c \in Channels : HandleLeaderDefault(p, c)
    \/ \E c \in Channels : HandleLeaderCall(p, c)
    \/ CtxCancel(p)
    \/ LeaderProxyReturn(p)
    \/ LeaderDelete(p)
    \/ LeaderClose(p)
    \/ TimerFire(p)
    \/ SelectDone(p)
    \/ SelectCtx(p)
    \/ SelectTimerDefault(p)
    \/ SelectTimerCall(p)
    \/ FallbackProxyReturn(p)

Spec == Init /\ [][Next]_vars

\* Which binding a Dispatch picks plays no part in the wait, so the
\* registries with several bindings are left out.
FairInit == Init /\ Cardinality(UsableProxies(proxies)) <= 1

\* The goroutine of a follower whose select has a ready case is eventually
\* run by the scheduler, and the runtime eventually fires a running timer.
\* Nothing makes a backend answer: the leader's transport call may hang.
FairSpec ==
  /\ FairInit
  /\ [][Next]_vars
  /\ \A p \in Calls :
       /\ WF_vars(TimerFire(p))
       /\ WF_vars(SelectDone(p) \/ SelectCtx(p) \/ SelectTimerDefault(p)
                    \/ SelectTimerCall(p))

\* Every configuration, with at most two calls made of the handler.
ConfigInit == \E cfg \in Configs : InitFrom(cfg)

ConfigNext == Next /\ pc'[NumCalls] = "idle"

ConfigSpec == ConfigInit /\ [][ConfigNext]_vars

\* A step of invocation p other than its issue, the firing of its timer and
\* the cancellation of its context: a step of its own goroutine or the
\* return of its own transport call.
OwnStep(p) ==
  \/ LeaderProxyReturn(p)
  \/ LeaderDelete(p)
  \/ LeaderClose(p)
  \/ SelectDone(p)
  \/ SelectCtx(p)
  \/ SelectTimerDefault(p)
  \/ SelectTimerCall(p)
  \/ FallbackProxyReturn(p)

\* The key whose calls are scheduled fairly and whose backend answers.
\* Channel names are interchangeable, and a call for FairKey can be issued
\* after calls for key 1 and before calls for key 3.
FairKey == 2

\* The goroutines of the calls for FairKey are eventually run and their
\* transport calls eventually return.  Nothing is assumed of the calls for
\* the other keys, of their backends, or of any timer: a leader of another
\* key may hang forever with followers waiting on it.
KeyFairSpec ==
  /\ FairInit
  /\ [][Next]_vars
  /\ \A p \in Calls : WF_vars(channel[p] = FairKey /\ OwnStep(p))

\* A leader whose Dispatch has returned runs its deferred cleanup, and a
\* follower whose lock.done is closed is eventually run and takes that case
\* unless it takes another.  Nothing is assumed of timers, of contexts or
\* of backends.
WakeSpec ==
  /\ FairInit
  /\ [][Next]_vars
  /\ \A p \in Calls :
       /\ WF_vars(LeaderDelete(p))
       /\ WF_vars(LeaderClose(p))
       /\ WF_vars(SelectDone(p))

\* ------------------------------------------------------------ properties
Issued(p) == pc[p] # "idle"

\* The invocations issued for channel c.
Group(c) == {p \in Calls : Issued(p) /\ channel[p] = c}

\* The followers that joined the channelLock of leader l.
Followers(l) == {p \in Calls : Issued(p) /\ lock[p] = l /\ ~isFirstCall[p]}

\* The number of transport calls made by the invocations in S.
CallCount(S) == Cardinality({i \in TransportCalls : i[1] \in S})

\* The registry holds at least one binding.
HasBackend == \E n \in DOMAIN proxies : proxies[n] # NilProxy

\* What handle() returns for the outcome `out` of a transport call.
Forwarded(out) ==
  IF out.err.kind = "nil" THEN [resp |-> out.resp, err |-> out.err]
                          ELSE [resp |-> NilResp, err |-> out.err]

\* C1 as stated: whenever all the Handle calls issued for a channel
\* overlapped in time (none was issued after another had returned), no
\* lock-wait timer fired, no context was cancelled and all have returned,
\* exactly one transport call was made and all returned the same pair.
C1_DedupAnyConcurrent ==
  \A c \in Channels :
    ( /\ Group(c) # {}
      /\ HasBackend
      /\ \A p \in Group(c) :
           /\ Returned(p) /\ pc[p] # "retTimeout"
           /\ ~afterDone[p] /\ ~timerFired[p] /\ ~ctxDone[p] )
    => /\ CallCount(Group(c)) = 1
       /\ \A p, q \in Group(c) : ret[p] = ret[q]

\* C1 amended: when moreover exactly one of these calls won the install step
\* (every other one found the leader's entry still in the map), exactly one
\* transport call was made (none without a backend) and all returned the
\* same pair.
C1_Dedup ==
  \A c \in Channels :
    ( /\ Group(c) # {}
      /\ \A p \in Group(c) :
           /\ Returned(p) /\ pc[p] # "retTimeout"
           /\ ~timerFired[p] /\ ~ctxDone[p]
      /\ Cardinality({p \in Group(c) : isFirstCall[p]}) = 1 )
    => /\ CallCount(Group(c)) = IF HasBackend THEN 1 ELSE 0
       /\ \A p, q \in Group(c) : ret[p] = ret[q]

\* Three calls for one channel, one leader and two followers, have all
\* returned from a single transport call.
C1_Witness ==
  \E c \in Channels :
    /\ Cardinality(Group(c)) = 3
    /\ HasBackend
    /\ \A p \in Group(c) : pc[p] \in {"retLeader", "retDone"}
                           /\ ~timerFired[p] /\ ~ctxDone[p]
    /\ Cardinality({p \in Group(c) : isFirstCall[p]}) = 1
    /\ CallCount(Group(c)) = 1

C3_TwoCallsTotal ==
  \A l \in Calls :
    ( /\ pc[l] = "leaderCall"
      /\ Followers(l) # {}
      /\ \A p \in Followers(l) : pc[p] = "retTimeout" )
    => CallCount({l} \cup Followers(l)) = 2

\* C3 amended: the hung leader made one transport call and every follower
\* that took the timer branch made one of its own, so N callers that all
\* time out make N calls (2 only when N = 2).
C3_OneCallPerTimedOutFollower ==
  \A l \in Calls :
    (pc[l] = "leaderCall")
    => CallCount({l} \cup Followers(l)) =
         1 + Cardinality({p \in Followers(l) :
                            pc[p] \in {"fallbackCall", "retTimeout"}})

\* A hung leader with two followers that both fell back: three calls.
C3_Witness ==
  \E l \in Calls :
    /\ pc[l] = "leaderCall"
    /\ Cardinality(Followers(l)) = 2
    /\ \A p \in Followers(l) : pc[p] = "retTimeout"
    /\ CallCount({l} \cup Followers(l)) = 3

\* C4 as stated: a follower whose context was cancelled before the
\* completion signal opened and before the timer fired returns
\* (nil, ctx.Err()) and makes no transport call.
C4_CancelFirstReturnsCtxErr ==
  [][\A p \in Calls :
       (pc[p] = "select" /\ first[p] = "ctx" /\ pc'[p] # "select")
       => /\ pc'[p] = "retCtx"
          /\ ret'[p] = [resp |-> NilResp, err |-> CtxErr]
          /\ transport'[p] = <<>>]_vars

\* C4 amended: a follower whose select is evaluated when the cancellation
\* alone is ready, or whose select picks the ctx.Done() case, returns
\* (nil, ctx.Err()) and makes no transport call.
C4_Cancellation ==
  [][\A p \in Calls :
       /\ ( /\ pc[p] = "select" /\ pc'[p] # "select"
            /\ ctxDone[p] /\ ~timerFired[p] /\ ~locks[lock[p]].done )
          => pc'[p] = "retCtx"
       /\ (pc[p] # "retCtx" /\ pc'[p] = "retCtx")
          => /\ ctxDone[p]
             /\ ret'[p] = [resp |-> NilResp, err |-> CtxErr]
             /\ transport'[p] = <<>>
             /\ transport' = transport
     ]_vars

\* A follower has returned the cancellation error while its leader's
\* transport call is still in flight.
C4_Witness ==
  \E p \in Calls :
    /\ pc[p] = "retCtx"
    /\ pc[lock[p]] = "leaderCall"
    /\ ret[p].err = CtxErr
    /\ transport[p] = <<>>

\* The leaders of channel c whose entry is still in the map.
LeadersInFlight(c) ==
  {q \in Calls : channel[q] = c
                 /\ pc[q] \in {"leaderCall", "leaderDelete"}}

\* The transport call that made the pair r (NoCall: none did).
Source(r) == IF r.err # NilErr THEN r.err.call ELSE r.resp.call

\* C5 as stated: the outcome returned by a Handle call issued after a call
\* for the same channel has returned was made by a transport call of its
\* own, or of a call issued after such a return like itself: not by the
\* transport call of an older Handle call.
C5_SubsequentCallIsFresh ==
  \A p \in Calls :
    (Completed(p) /\ afterDone[p] /\ HasBackend)
    => /\ Source(ret[p]) \in TransportCalls
       /\ afterDone[Source(ret[p])[1]]

\* C5 amended: a Handle call issued after a call for the same channel has
\* returned becomes leader, and returns the outcome of a transport call of
\* its own, whenever no other call is leader for the channel with its entry
\* still in the map; otherwise it joins that leader.  It never joins a lock
\* whose leader has removed the entry.
C5_Cleanup ==
  [][\A p \in Calls :
       /\ (pc[p] = "idle" /\ pc'[p] # "idle" /\ afterDone'[p])
          => IF LeadersInFlight(channel'[p]) = {}
               THEN pc'[p] \in {"leaderCall", "leaderDelete"} /\ lock'[p] = p
               ELSE pc'[p] = "select" /\ lock'[p] \in LeadersInFlight(channel'[p])
       /\ (pc[p] = "leaderCall" /\ pc'[p] # "leaderCall" /\ afterDone[p])
          => /\ Len(transport'[p]) = 1
             /\ transport'[p][1].returned
             /\ ret'[p] = Forwarded(transport'[p][1].out)
             /\ ret'[p].resp.call \in {NoCall, <<p, 1>>}
             /\ ret'[p].err.call \in {NoCall, <<p, 1>>}
     ]_vars

\* A call issued after another call for its channel had returned is leader
\* and has returned the response of its own transport call.
C5_Witness ==
  \E p \in Calls :
    /\ afterDone[p]
    /\ pc[p] = "retLeader"
    /\ ret[p].resp.call = <<p, 1>>
    /\ \E q \in CompletedFor(channel[p]) : ret[q] # ret[p]

\* C6: when the calls issued so far are for pairwise distinct channels, each
\* of them is the leader of its own lock, each transport call carries its
\* caller's channel, and once all have returned there is one transport call
\* per call.
C6_Isolation ==
  LET I == {p \in Calls : Issued(p)} IN
    (\A p, q \in I : p # q => channel[p] # channel[q])
    => /\ \A p \in I : isFirstCall[p] /\ lock[p] = p
       /\ \A p \in I : \A k \in 1..Len(transport[p]) :
            transport[p][k].req = [Channel |-> channel[p]]
       /\ ((\A p \in I : Returned(p)) /\ HasBackend)
          => /\ CallCount(I) = Cardinality(I)
             /\ \A p \in I : Len(transport[p]) = 1

\* Three calls for three channels have returned after three transport calls.
C6_Witness ==
  /\ \A p \in Calls : Returned(p)
  /\ \A p, q \in Calls : p # q => channel[p] # channel[q]
  /\ HasBackend
  /\ CallCount(Calls) = 3

\* C7: every follower that returned through the completion signal returned
\* the pair its leader returned, so any two followers of one leader
\* returned the same pair.
C7_SharedOutcome ==
  \A p \in Calls :
    pc[p] = "retDone"
    => /\ pc[lock[p]] = "retLeader"
       /\ ret[p] = ret[lock[p]]
       /\ \A q \in Calls : (pc[q] = "retDone" /\ lock[q] = lock[p])
                           => ret[q] = ret[p]

\* A leader and two followers returned the pair of a failed transport call.
C7_Witness ==
  \E l \in Calls :
    /\ pc[l] = "retLeader"
    /\ ret[l].err.kind = "transport"
    /\ Cardinality({p \in Followers(l) : pc[p] = "retDone"}) = 2

\* C8: when the leader's transport call failed, the leader and every
\* follower returning through the completion signal return exactly that
\* error and no response.
C8_ErrorPropagation ==
  \A l \in Calls :
    ( /\ isFirstCall[l]
      /\ Len(transport[l]) >= 1
      /\ transport[l][1].returned
      /\ transport[l][1].out.err # NilErr )
    => /\ pc[l] \in {"leaderDelete", "leaderClose", "retLeader"}
       /\ ret[l] = [resp |-> NilResp, err |-> transport[l][1].out.err]
       /\ \A p \in Followers(l) :
            pc[p] = "retDone"
            => ret[p] = [resp |-> NilResp, err |-> transport[l][1].out.err]

\* The leader's call failed and a follower returned that error.
C8_Witness ==
  \E l \in Calls : \E p \in Followers(l) :
    /\ isFirstCall[l]
    /\ Len(transport[l]) = 1
    /\ transport[l][1].out.err = [kind |-> "transport", call |-> <<l, 1>>]
    /\ pc[p] = "retDone"
    /\ ret[p].err = transport[l][1].out.err

\* C9: a follower at the wait point eventually leaves it, whether or not
\* the leader's transport call ever returns.
C9_BoundedWait ==
  \A p \in Calls : (pc[p] = "select") ~> (pc[p] # "select")

\* A follower left the wait point through the timer while its leader's
\* transport call was still in flight and its own context was live.
C9_Witness ==
  \E p \in Calls :
    /\ pc[p] = "fallbackCall"
    /\ ~ctxDone[p]
    /\ pc[lock[p]] = "leaderCall"

\* C10: with a registry that is empty or holds nil entries only, no
\* transport call is ever made and every Dispatch (the leader's or a
\* fallback's) returns the default response and a nil error.
C10_NoBackendDefault ==
  (\A n \in DOMAIN proxies : proxies[n] = NilProxy)
  => /\ \A p \in Calls : transport[p] = <<>>
     /\ \A p \in Calls :
          pc[p] \in {"leaderDelete", "leaderClose", "retLeader", "retTimeout"}
          => ret[p] = [resp |-> [nil |-> FALSE, populated |-> FALSE,
                                 call |-> NoCall],
                       err |-> NilErr]

\* With nil entries only, a leader and a fallback returned the default.
C10_Witness ==
  /\ DOMAIN proxies # {}
  /\ \A n \in DOMAIN proxies : proxies[n] = NilProxy
  /\ \E p, q \in Calls :
       /\ pc[p] = "retLeader" /\ ret[p].resp = DefaultResponse
       /\ pc[q] = "retTimeout" /\ ret[q].resp = DefaultResponse

\* C11: every Handle call for a key whose goroutines run and whose transport
\* calls return eventually returns, whatever the calls for the other keys
\* do: their leaders may hang forever and their followers wait forever.
C11_NoCrossKeyStarvation ==
  \A p \in Calls :
    (Issued(p) /\ channel[p] = FairKey) ~> Returned(p)

\* A call for FairKey has returned while the leader of key 1, issued before
\* it, is blocked in its transport call with a follower waiting on it.
C11_Witness ==
  \E l, q, p \in Calls :
    /\ channel[l] = 1 /\ pc[l] = "leaderCall"
    /\ pc[q] = "select" /\ lock[q] = l
    /\ channel[p] = FairKey /\ pc[p] = "retLeader"
    /\ ret[p].resp.call = <<p, 1>>

\* C12: the handler built from a configuration whose LockTimeout is zero
\* waits 5 seconds; built from any other LockTimeout it waits exactly that.
C12_DefaultLockTimeout ==
  /\ config.LockTimeout = 0 => lockTimeout = 5 * Second
  /\ config.LockTimeout # 0 => lockTimeout = config.LockTimeout

\* A follower of a handler built without LockTimeout is waiting on the timer
\* it created with the default timeout.
C12_Witness ==
  \E p \in Calls :
    /\ config.LockTimeout = 0
    /\ lockTimeout = 5 * Second
    /\ pc[p] = "select" /\ ~timerFired[p]

\* The calls that hold lock l with isFirstCall set.
LeadersOf(l) == {p \in Calls : Issued(p) /\ isFirstCall[p] /\ lock[p] = l}

\* C13: for every channel at most one lock is installed and not yet
\* removed: the map entry of the channel, when there is one, is the lock of
\* the only leader between its install step and its removal step, and at
\* most one leader of the channel is inside its transport call.
C13_OnePendingCallPerChannel ==
  \A c \in Channels :
    /\ Cardinality(LeadersInFlight(c)) <= 1
    /\ Cardinality({p \in Calls : Issued(p) /\ channel[p] = c /\ isFirstCall[p]
                                  /\ pc[p] = "leaderCall"}) <= 1
    /\ IF channelLocks[c] = NoLock
         THEN LeadersInFlight(c) = {}
         ELSE LeadersInFlight(c) = {channelLocks[c]}

\* A leader of a channel is inside its transport call while the previous
\* leader of the same channel, its entry removed, has not signalled yet and
\* still has a follower waiting.
C13_Witness ==
  \E l1, l2, q \in Calls :
    /\ channel[l1] = channel[l2]
    /\ pc[l1] = "leaderClose" /\ pc[l2] = "leaderCall"
    /\ channelLocks[channel[l2]] = l2
    /\ pc[q] = "select" /\ lock[q] = l1

\* C14: the install step decides in one step: a call that finds no entry
\* for its channel installs its own lock and is its leader; a call that
\* finds an entry leaves the map alone, is a follower and holds that very
\* entry.  So every lock in use has exactly one leader, its creator.
C14_AtomicLeaderElection ==
  [][\A p \in Calls :
       /\ (pc[p] = "idle" /\ pc'[p] # "idle")
          => LET c == channel'[p] IN
               IF channelLocks[c] = NoLock
                 THEN /\ isFirstCall'[p] /\ lock'[p] = p
                      /\ channelLocks' = [channelLocks EXCEPT ![c] = p]
                 ELSE /\ ~isFirstCall'[p] /\ lock'[p] = channelLocks[c]
                      /\ channelLocks' = channelLocks
       /\ pc'[p] # "idle"
          => /\ LeadersOf(lock[p])' = {lock'[p]}
             /\ channel'[lock'[p]] = channel'[p]
             /\ isFirstCall'[p] <=> lock'[p] = p
     ]_vars

\* Three calls reached the install step for one channel while the entry
\* of the first was present: one leader, two followers holding its lock.
C14_Witness ==
  \E l \in Calls :
    /\ pc[l] = "leaderCall"
    /\ LeadersOf(l) = {l}
    /\ Cardinality(Followers(l)) = 2
    /\ channelLocks[channel[l]] = l

\* The pair stored on lock lk.
Stored(lk) == [resp |-> lk.result, err |-> lk.err]

\* The outcome of the Dispatch made by invocation p, once it has returned.
DispatchOutcome(p) ==
  IF HasBackend THEN Forwarded(transport[p][1].out)
                ELSE [resp |-> DefaultResponse, err |-> NilErr]

\* C15: once the leader's Dispatch has returned, with a response or with an
\* error, nothing can block the cleanup: the removal step, then the
\* signalling step, can be taken; and a leader that has returned has left
\* no entry of its own in the map and has opened its completion signal.
C15_UnconditionalCleanup ==
  \A l \in Calls :
    /\ pc[l] = "leaderDelete" => ENABLED LeaderDelete(l)
    /\ pc[l] = "leaderClose" => ENABLED LeaderClose(l)
    /\ (isFirstCall[l] /\ Returned(l))
       => /\ pc[l] = "retLeader"
          /\ locks[lock[l]].done
          /\ channelLocks[LockKey(channel[l])] # lock[l]

\* A leader whose Dispatch failed has returned: the entry is gone and the
\* signal is open.
C15_Witness ==
  \E l \in Calls :
    /\ pc[l] = "retLeader"
    /\ ret[l].err.kind = "transport"
    /\ locks[l].done
    /\ channelLocks[channel[l]] = NoLock

\* C16: the entry is removed and the completion signal opened only after
\* the leader stored its Dispatch outcome on the lock: whenever the entry
\* of a leader is gone or its signal is open, the stored pair is that
\* outcome, and a follower that took the signal returned that pair.
C16_PublishBeforeSignal ==
  /\ \A l \in Calls :
       (isFirstCall[l] /\ (locks[l].done \/ pc[l] \in {"leaderClose", "retLeader"}))
       => /\ HasBackend => (Len(transport[l]) = 1 /\ transport[l][1].returned)
          /\ Stored(locks[l]) = DispatchOutcome(l)
          /\ Stored(locks[l]) = ret[l]
  /\ \A l \in Calls : locks[l].done => isFirstCall[l] /\ lock[l] = l
  /\ \A p \in Calls :
       pc[p] = "retDone" => (locks[lock[p]].done /\ ret[p] = DispatchOutcome(lock[p]))

\* The signal of a lock is open, the lock holds the response of its
\* leader's transport call, and a follower is about to read it.
C16_Witness ==
  \E l, q \in Calls :
    /\ locks[l].done
    /\ locks[l].result.call = <<l, 1>>
    /\ pc[q] = "select" /\ lock[q] = l

\* C17 as stated: whenever a leader has removed its entry from the map, its
\* completion signal is already open.
C17_SignalBeforeRemoval ==
  \A l \in Calls :
    (isFirstCall[l] /\ pc[l] \in {"leaderClose", "retLeader"}) => locks[l].done

\* C17 amended: the leader removes its entry first and signals second:
\* whenever the completion signal of a lock is open, the leader removed the
\* entry of that lock from the map before, and the two steps are taken in
\* this order with nothing of the leader's in between.
C17_RemovalBeforeSignal ==
  [][\A l \in Calls :
       /\ locks'[l].done
          => /\ channelLocks'[LockKey(channel'[l])] # l
             /\ pc'[l] = "retLeader"
       /\ (pc[l] = "leaderDelete" /\ pc'[l] # "leaderDelete")
          => /\ pc'[l] = "leaderClose"
             /\ channelLocks[LockKey(channel[l])] = l
             /\ channelLocks'[LockKey(channel[l])] = NoLock
             /\ ~locks'[l].done
       /\ (pc[l] = "leaderClose" /\ pc'[l] # "leaderClose")
          => /\ pc'[l] = "retLeader"
             /\ ~locks[l].done /\ locks'[l].done
             /\ channelLocks' = channelLocks
     ]_vars

\* A leader has removed its entry and not signalled yet; a follower waits
\* on its lock, and a new call has already installed a lock of its own.
C17_Witness ==
  \E l, q, n \in Calls :
    /\ pc[l] = "leaderClose" /\ ~locks[l].done
    /\ pc[q] = "select" /\ lock[q] = l
    /\ channel[n] = channel[l] /\ isFirstCall[n] /\ channelLocks[channel[l]] = n

\* C18: a completion signal, once open, stays open; it is opened by the
\* cleanup of the leader of its lock and by nothing else, no close of a
\* closed channel is ever attempted, and a follower that takes the signal
\* leaves it open for the others.
C18_OneShotSignal ==
  [][/\ \A l \in Calls :
          /\ locks[l].done => locks'[l].done
          /\ (~locks[l].done /\ locks'[l].done)
             => /\ isFirstCall[l] /\ lock[l] = l
                /\ pc[l] = "leaderClose" /\ pc'[l] = "retLeader"
                /\ \A k \in Calls \ {l} : locks'[k] = locks[k] /\ pc'[k] = pc[k]
     /\ \A p \in Calls :
          /\ pc'[p] # "panic"
          /\ (pc[p] = "select" /\ pc'[p] = "retDone")
             => locks[lock[p]].done /\ locks' = locks
    ]_vars

\* A follower has returned through the open signal of a lock and another
\* follower of the same lock can still take it.
C18_Witness ==
  \E l, p, q \in Calls :
    /\ pc[l] = "retLeader" /\ locks[l].done
    /\ pc[p] = "retDone" /\ lock[p] = l
    /\ pc[q] = "select" /\ lock[q] = l

\* C19: no step of a follower after the install step (the timer branch up
\* to its transport call, the return of that call, the cancellation
\* return) changes the map or any lock: no entry is installed, replaced or
\* removed, no result or error is written, no signal is opened.
C19_FallbackFrame ==
  [][\A p \in Calls :
       ( /\ ~isFirstCall[p]
         /\ pc[p] \in {"select", "fallbackCall"}
         /\ pc'[p] \in {"fallbackCall", "retTimeout", "retCtx"}
         /\ pc'[p] # pc[p] )
       => /\ channelLocks' = channelLocks
          /\ locks' = locks
          /\ lock'[p] = lock[p] /\ isFirstCall'[p] = isFirstCall[p]
     ]_vars

\* One follower has finished its fallback and another has returned its
\* cancellation error; the leader's entry is still in the map, its lock
\* still without result and its signal closed.
C19_Witness ==
  \E l, p, q \in Calls :
    /\ pc[l] = "leaderCall" /\ channelLocks[channel[l]] = l
    /\ pc[p] = "retTimeout" /\ lock[p] = l /\ Len(transport[p]) = 1
    /\ pc[q] = "retCtx" /\ lock[q] = l
    /\ locks[l] = [result |-> NilResp, err |-> NilErr, done |-> FALSE]

\* Invocation p has started a Dispatch (the leader's or the fallback's).
Dispatched(p) ==
  pc[p] \in {"leaderCall", "leaderDelete", "leaderClose", "retLeader",
             "fallbackCall", "retTimeout"}

\* The Dispatch of invocation p has returned.
DispatchReturned(p) ==
  pc[p] \in {"leaderDelete", "leaderClose", "retLeader", "retTimeout"}

\* C20: whatever the registry, a Dispatch makes one transport call when the
\* registry holds a non-nil entry (nil entries beside it do not matter) and
\* none otherwise; the call is made on a non-nil entry; what the Dispatch
\* returns is that call's response with a nil error, or that call's error
\* with a nil response, and no second call follows an error.
C20_FirstUsableEntry ==
  \A p \in Calls :
    /\ Len(transport[p]) = IF Dispatched(p) /\ HasBackend THEN 1 ELSE 0
    /\ \A k \in 1..Len(transport[p]) :
         /\ transport[p][k].proxy \in DOMAIN proxies
         /\ proxies[transport[p][k].proxy] # NilProxy
         /\ transport[p][k].protocol = proxies[transport[p][k].proxy]
    /\ (DispatchReturned(p) /\ HasBackend)
       => LET out == transport[p][1].out IN
            /\ transport[p][1].returned
            /\ IF out.err = NilErr
                 THEN ret[p] = [resp |-> out.resp, err |-> NilErr]
                 ELSE ret[p] = [resp |-> NilResp, err |-> out.err]

\* The registry holds a nil entry and a binding; a Dispatch called the
\* binding once, the call failed and its error was returned.
C20_Witness ==
  \E p \in Calls :
    /\ \E n \in DOMAIN proxies : proxies[n] = NilProxy
    /\ HasBackend
    /\ pc[p] = "retTimeout"
    /\ Len(transport[p]) = 1
    /\ proxies[transport[p][1].proxy] # NilProxy
    /\ ret[p] = [resp |-> NilResp, err |-> [kind |-> "transport", call |-> <<p, 1>>]]

\* C21: an invocation makes at most one transport call: a leader one (none
\* without a backend), a follower one on the timer branch and none on the
\* other two, also when calls fail; so there are never more transport
\* calls than invocations.
C21_NoInternalRetry ==
  /\ \A p \in Calls :
       /\ Len(transport[p]) <= 1
       /\ ~Issued(p) => transport[p] = <<>>
       /\ (Issued(p) /\ isFirstCall[p] /\ HasBackend) => Len(transport[p]) = 1
       /\ (Issued(p) /\ ~isFirstCall[p])
          => /\ pc[p] \in {"select", "retDone", "retCtx"} => transport[p] = <<>>
             /\ (pc[p] \in {"fallbackCall", "retTimeout"} /\ HasBackend)
                => Len(transport[p]) = 1
       /\ \A k \in 1..Len(transport[p]) :
            (transport[p][k].returned /\ transport[p][k].out.err # NilErr)
            => /\ k = Len(transport[p])
               /\ pc[p] \notin {"leaderCall", "fallbackCall"}
  /\ CallCount(Calls) <= Cardinality({p \in Calls : Issued(p)})

\* Three invocations have returned after two transport calls, both failed:
\* the leader's, shared by one follower, and a fallback's.
C21_Witness ==
  \E l, p, q \in Calls :
    /\ pc[l] = "retLeader" /\ ret[l].err.kind = "transport"
    /\ pc[p] = "retDone" /\ lock[p] = l
    /\ pc[q] = "retTimeout" /\ lock[q] = l /\ ret[q].err.kind = "transport"
    /\ CallCount(Calls) = 2

\* C22: the entry of a channel is never a completed lock (its signal is
\* closed and its leader is between install and removal), the leader's next
\* step after its Dispatch returns is the removal, and a call that finds no
\* entry at the install step installs a new lock with no result, is its
\* leader, makes its own Dispatch and returns the outcome of that Dispatch.
C22_NoCachedState ==
  [][/\ \A c \in Channels :
          channelLocks'[c] # NoLock
          => /\ ~locks'[channelLocks'[c]].done
             /\ pc'[channelLocks'[c]] \in {"leaderCall", "leaderDelete"}
     /\ \A p \in Calls :
          /\ (pc[p] = "idle" /\ pc'[p] # "idle" /\ channelLocks[channel'[p]] = NoLock)
             => /\ isFirstCall'[p] /\ lock'[p] = p
                /\ channelLocks'[channel'[p]] = p
                /\ locks[p] = [result |-> NilResp, err |-> NilErr, done |-> FALSE]
                /\ IF HasBackend
                     THEN /\ pc'[p] = "leaderCall"
                          /\ Len(transport'[p]) = 1
                          /\ ~transport'[p][1].returned
                          /\ transport'[p][1].req = [Channel |-> channel'[p]]
                     ELSE pc'[p] = "leaderDelete"
          /\ (pc[p] = "leaderCall" /\ pc'[p] # "leaderCall")
             => pc'[p] = "leaderDelete"
          /\ (pc[p] = "leaderDelete" /\ pc'[p] # "leaderDelete")
             => channelLocks'[channel[p]] = NoLock
          /\ (isFirstCall'[p] /\ Returned(p)')
             => /\ ret'[p] = DispatchOutcome(p)'
                /\ Source(ret'[p]) \in {NoCall, <<p, 1>>}
    ]_vars

\* A call installed right after the previous leader of its channel removed
\* the entry and has returned the response of its own transport call while
\* the previous leader has not signalled yet.
C22_Witness ==
  \E l1, l2 \in Calls :
    /\ l1 # l2 /\ channel[l1] = channel[l2]
    /\ pc[l1] = "leaderClose" /\ ret[l1].resp.call = <<l1, 1>>
    /\ pc[l2] = "retLeader" /\ ret[l2].resp.call = <<l2, 1>>

\* An invocation is in progress.
InProgress(p) == Issued(p) /\ ~Returned(p)

\* C23: the map holds an entry for a channel exactly when one call is on
\* the leader path of that channel between its install step and its
\* removal step, and the entry is that call's lock; with no call in
\* progress the map is empty; a follower, however it returns, is never the
\* owner of an entry.
C23_NoLeakedEntries ==
  /\ \A c \in Channels :
       /\ channelLocks[c] # NoLock <=> Cardinality(LeadersInFlight(c)) = 1
       /\ channelLocks[c] # NoLock => LeadersInFlight(c) = {channelLocks[c]}
       /\ Cardinality(LeadersInFlight(c)) <= 1
  /\ (\A p \in Calls : ~InProgress(p)) => \A c \in Channels : channelLocks[c] = NoLock
  /\ \A p \in Calls :
       (Issued(p) /\ ~isFirstCall[p]) => \A c \in Channels : channelLocks[c] # p

\* Every call has returned (a leader and followers by signal, by fallback
\* and by cancellation among them) and the map is empty.
C23_Witness ==
  /\ \A p \in Calls : Returned(p)
  /\ \A c \in Channels : channelLocks[c] = NoLock
  /\ \E p \in Calls : pc[p] = "retLeader"
  /\ \E p \in Calls : pc[p] = "retTimeout"
  /\ \E p \in Calls : pc[p] = "retCtx"

\* C24: a follower waiting on a lock whose leader's Dispatch has returned
\* eventually returns the pair stored on that very lock, unless its timer
\* fires or its context is cancelled first; it does so also when the lock
\* was removed and signalled before the follower's select ran and when a
\* newer lock has been installed for the channel.
C24_NoLostWakeup ==
  \A p \in Calls :
    (pc[p] = "select"
       /\ pc[lock[p]] \in {"leaderDelete", "leaderClose", "retLeader"})
    ~> ( \/ pc[p] = "retDone" /\ ret[p] = Stored(locks[lock[p]])
         \/ timerFired[p]
         \/ ctxDone[p] )

\* A follower, its timer and context quiet, waits on a lock that its leader
\* has removed and signalled, while the map already holds a newer lock for
\* the channel whose leader is inside its transport call.
C24_Witness ==
  \E p, l, n \in Calls :
    /\ pc[p] = "select" /\ lock[p] = l
    /\ ~timerFired[p] /\ ~ctxDone[p]
    /\ pc[l] = "retLeader" /\ locks[l].done
    /\ n # l /\ channelLocks[channel[p]] = n /\ pc[n] = "leaderCall"

\* C25: a transport call fails with a cancellation error only when the
\* context of the invocation that made it is cancelled; the leader path
\* never returns ctx.Err() of its own; and when the leader's transport call
\* failed with a cancellation error, that error is stored on the lock and
\* returned, with no response, by the leader and by every follower that
\* returns through the completion signal, whatever the follower's context.
C25_LeaderContextGoverns ==
  /\ \A p \in Calls : \A k \in 1..Len(transport[p]) :
       (transport[p][k].returned
          /\ transport[p][k].out.err.kind = "context canceled")
       => ctxDone[p]
  /\ \A l \in Calls :
       (Issued(l) /\ isFirstCall[l])
       => /\ ret[l].err # CtxErr
          /\ ( /\ Len(transport[l]) = 1
               /\ transport[l][1].returned
               /\ transport[l][1].out.err.kind = "context canceled" )
             => LET e == transport[l][1].out.err IN
                  /\ e = [kind |-> "context canceled", call |-> <<l, 1>>]
                  /\ Stored(locks[l]) = [resp |-> NilResp, err |-> e]
                  /\ ret[l] = [resp |-> NilResp, err |-> e]
                  /\ \A p \in Followers(l) :
                       pc[p] = "retDone" => ret[p] = [resp |-> NilResp, err |-> e]

\* A follower whose own context was never cancelled has returned the
\* cancellation error of its leader's transport call.
C25_Witness ==
  \E l \in Calls : \E p \in Followers(l) :
    /\ ctxDone[l] /\ ~ctxDone[p]
    /\ pc[p] = "retDone"
    /\ ret[p] = [resp |-> NilResp,
                 err |-> [kind |-> "context canceled", call |-> <<l, 1>>]]

====
